---- MODULE Spec2Model ----
(***************************************************************************)
(* nicer-server (lib/index.js): a wrapper around one http(s).Server that   *)
(* keeps a Map of the accepted sockets, toggles an `idle` flag per socket  *)
(* and offers listen / close / restart, each returning a Promise.          *)
(*                                                                         *)
(* The transport is Node's net/http Server as lib/index.js uses it:        *)
(*   - instance.listen(port, cb): the handle exists when the call returns  *)
(*     (instance.listening is true), cb is a once('listening') listener    *)
(*     and the event is emitted on the next tick, if the handle is still   *)
(*     there;                                                              *)
(*   - instance.close(cb): the handle is gone when the call returns        *)
(*     (instance.listening is false), cb is a once('close') listener and   *)
(*     the event is emitted on the next tick once no connection is left    *)
(*     (every registered socket has just been destroyed by the sweep);     *)
(*   - next-tick callbacks and promise reactions run before any further    *)
(*     I/O event (connection, request, response and socket events).        *)
(***************************************************************************)
EXTENDS Integers, Sequences, FiniteSets, TLC

\* ---- bounds -------------------------------------------------------------
\* connections and requests the transport delivers, and listen() calls that
\* attach observers
MaxConns == 1
MaxReqs  == 2
MaxListens == 2
\* restart() promises that wait to be rejected at one time
MaxFailed == 1

Conns == 1..MaxConns
Reqs  == 1..MaxReqs

VARIABLES
  listening,   \* server.instance.listening
  observers,   \* number of ('request', 'connection') listener pairs on the instance
  sockets,     \* server.sockets: the Map, as its entries in insertion order
  issued,      \* number of ids uuid.v4() has produced so far
  phase,       \* per connection: "new" (not accepted), "open", "closed"
  idle,        \* per connection: socket.idle (absent reads as FALSE)
  uuid,        \* per connection: socket.uuid (0: absent)
  onClose,     \* per connection: number of once('close') listeners on the socket
  destroys,    \* per connection: socket.destroy() calls so far (0, 1, 2: more than one)
  reqs,        \* per request: the response's state and its once() listeners
  listenCbs,   \* number of listen() promises waiting for the 'listening' event
  closeCbs,    \* number of close() promises waiting for the 'close' event
  thens,       \* number of restart() promises waiting for a pending close() promise
  jobs,        \* number of restart() promises whose close() promise is resolved
  failed,      \* number of restart() promises whose close() promise is rejected
  ticks,       \* the next-tick queue: pending 'listening' / 'close' emissions
  made,        \* the createServer(cb, c) call: its arguments and its outcome
  last         \* the handler that ran last and the operations it issued, in order

vars == << listening, observers, sockets, issued, phase, idle, uuid, onClose,
           destroys, reqs, listenCbs, closeCbs, thens, jobs, failed, ticks, made,
           last >>

\* ---- operations a handler issues -----------------------------------------
Op(o, s, k) == [op |-> o, socket |-> s, key |-> k]

\* ---- createServer(cb, c), lines 36-95 --------------------------------------
\* the values tried for cb and for c.ssl ("absent": c has no such property)
CbValues == {"function", "undefined", "null", "string", "number", "object"}

SslValues == {"absent", "null", "undefined", "false", "options"}

\* typeof
TypeOf(v) == IF v = "null" THEN "object" ELSE v

\* lines 51-56: Object.assign({ ..., ssl: null }, c)
ConfigSsl(ssl) == IF ssl = "absent" THEN "null" ELSE ssl

\* the truth value of (config.ssl), line 75
Truthy(v) == v \notin {"null", "undefined", "false"}

\* a createServer that builds the transport before it looks at cb
CreateServerChecksLate(cb, ssl) ==
  LET made0 == << Op(IF Truthy(ConfigSsl(ssl)) THEN "https.createServer"
                                              ELSE "http.createServer", 0, 0) >>
  IN IF TypeOf(cb) # "function"
       THEN [thrown |-> "TypeError", ops |-> made0, result |-> "none"]
       ELSE [thrown |-> "none", ops |-> Append(made0, Op("new Map", 0, 0)),
             result |-> "server"]

\* a createServer that never uses https
CreateServerAlwaysPlain(cb, ssl) ==
  IF TypeOf(cb) # "function"
    THEN [thrown |-> "TypeError", ops |-> << >>, result |-> "none"]
    ELSE [thrown |-> "none",
          ops |-> << Op("http.createServer", 0, 0), Op("new Map", 0, 0) >>,
          result |-> "server"]

\* lines 36-95 and 188: what the call throws, the constructors it calls, in
\* order, and what it returns
CreateServer(cb, ssl) ==
  IF TypeOf(cb) # "function"
    THEN [thrown |-> "TypeError", ops |-> << >>, result |-> "none"]
    ELSE [thrown |-> "none",
          ops |-> << Op(IF Truthy(ConfigSsl(ssl)) THEN "https.createServer"
                                                 ELSE "http.createServer", 0, 0),
                     Op("new Map", 0, 0) >>,
          result |-> "server"]

\* the createServer call before it runs, and after
Called(cb, ssl) ==
  [state |-> "args", cb |-> cb, ssl |-> ssl,
   thrown |-> "none", ops |-> << >>, result |-> "none"]

Returned(cb, ssl) ==
  LET out == CreateServer(cb, ssl) IN
  [state |-> IF out.thrown = "none" THEN "created" ELSE "thrown",
   cb |-> cb, ssl |-> ssl,
   thrown |-> out.thrown, ops |-> out.ops, result |-> out.result]

\* ---- the Map -------------------------------------------------------------
MapHas(m, k) == \E i \in DOMAIN m : m[i].key = k

MapGet(m, k) == (CHOOSE i \in DOMAIN m : m[i].key = k)

MapDelete(m, k) == SelectSeq(m, LAMBDA e : e.key # k)

MapSet(m, k, s) ==
  IF MapHas(m, k)
    THEN [i \in DOMAIN m |-> IF m[i].key = k THEN [key |-> k, socket |-> s] ELSE m[i]]
    ELSE Append(m, [key |-> k, socket |-> s])

MapSockets(m) == { m[i].socket : i \in DOMAIN m }

RECURSIVE ApplyOps(_, _)
ApplyOps(m, ops) ==
  IF ops = << >> THEN m
  ELSE LET o == Head(ops)
           m1 == CASE o.op = "delete" -> MapDelete(m, o.key)
                   [] o.op = "set"    -> MapSet(m, o.key, o.socket)
                   [] OTHER           -> m
       IN ApplyOps(m1, Tail(ops))

CountOps(ops, o, s) ==
  Cardinality({ i \in DOMAIN ops : ops[i].op = o /\ ops[i].socket = s })

HasOp(ops, o) == \E i \in DOMAIN ops : ops[i].op = o

RECURSIVE Repeat(_, _)
Repeat(ops, n) == IF n = 0 THEN << >> ELSE ops \o Repeat(ops, n - 1)

\* ---- promises ------------------------------------------------------------
\* what a handler did to a promise: created it pending, or resolved it
\* a resolve() called without the server
ValueUndefined(o, st) ==
  CASE st = "pending"  -> "none"
    [] st = "rejected" -> "error"
    [] OTHER           -> "undefined"

\* the argument of resolve() at lines 108, 119, 137 and 171
ResolveArg == "server"

\* line 185: then() with an argument that is no function hands the value of
\* the close() promise on to the promise it returns
ThenValue(v) == v

\* the value a promise of `o` is settled with
Value(o, st) ==
  CASE st = "pending"  -> "none"
    [] st = "rejected" -> "error"
    [] o = "restart"   -> ThenValue(ResolveArg)
    [] OTHER           -> ResolveArg

Done(o, st) == [op |-> o, state |-> st, value |-> Value(o, st)]

\* resolve(server) run for n pending promises of `o`
DoneSeq(o, n) == [i \in 1..n |-> Done(o, "resolved")]

\* ---- the server's mutable state, as the bodies below transform it --------
Cur == [listening |-> listening, observers |-> observers, sockets |-> sockets,
        destroys |-> destroys, listenCbs |-> listenCbs, closeCbs |-> closeCbs,
        thens |-> thens, jobs |-> jobs, failed |-> failed, ticks |-> ticks,
        bindOk |-> TRUE, throwAt |-> 0, ops |-> << >>, calls |-> << >>]

\* the outcome the transport will report for the next bind (input of listen)
WithBind(S, ok) == [S EXCEPT !.bindOk = ok]

\* the entry of the Map at which socket.destroy() will throw in the next sweep
\* (0: no destroy() throws; input of close)
WithThrow(S, k) == [S EXCEPT !.throwAt = k]

Min(a, b) == IF a <= b THEN a ELSE b

Issue(S, ops) ==
  [S EXCEPT !.ops = S.ops \o ops,
            !.sockets = ApplyOps(S.sockets, ops),
            !.destroys = [c \in Conns |->
                            Min(S.destroys[c] + CountOps(ops, "destroy", c), 2)]]

\* a sweep that destroys the sockets and leaves their entries in the Map
SweepOpsKeepEntries(m) == [i \in 1..Len(m) |-> Op("destroy", m[i].socket, 0)]

\* a sweep that deletes each entry before it destroys the socket
SweepOpsDeleteFirst(m) ==
  [i \in 1..(2 * Len(m)) |->
     IF i % 2 = 1 THEN Op("delete", m[(i + 1) \div 2].socket, m[(i + 1) \div 2].key)
                  ELSE Op("destroy", m[i \div 2].socket, 0)]

\* a sweep that deletes the entries and destroys no socket
SweepOpsDeleteOnly(m) == [i \in 1..Len(m) |-> Op("delete", m[i].socket, m[i].key)]

\* close(), lines 112-115: sockets.forEach -> destroy, then delete
SweepOps(m) ==
  [i \in 1..(2 * Len(m)) |->
     IF i % 2 = 1 THEN Op("destroy", m[(i + 1) \div 2].socket, 0)
                  ELSE Op("delete", m[i \div 2].socket, m[i \div 2].key)]

\* a close() that sweeps and stops the transport whatever instance.listening is
CloseBodyUnguarded(S) ==
  LET S1 == Issue(S, SweepOps(S.sockets) \o << Op("stop", 0, 0) >>) IN
  [S1 EXCEPT !.calls = Append(S.calls, Done("close", "pending")),
             !.listening = FALSE,
             !.closeCbs = S.closeCbs + 1,
             !.ticks = Append(S.ticks, "close")]

\* lines 105-115 when the destroy() of entry k throws: the entries before k
\* are swept, then the exception leaves forEach and the executor
SweepOpsThrowing(m, k) ==
  SubSeq(SweepOps(m), 1, 2 * (k - 1)) \o << Op("destroyThrows", m[k].socket, 0) >>

\* close(), lines 104-123. An exception in the executor rejects the promise
\* and skips the rest of the executor.
CloseBody(S) ==
  IF ~S.listening
    THEN [S EXCEPT !.calls = Append(S.calls, Done("close", "resolved"))]
  ELSE IF S.throwAt > 0
    THEN LET S1 == Issue(S, SweepOpsThrowing(S.sockets, S.throwAt)) IN
         [S1 EXCEPT !.calls = Append(S.calls, Done("close", "rejected"))]
    ELSE LET S1 == Issue(S, SweepOps(S.sockets) \o << Op("stop", 0, 0) >>) IN
         [S1 EXCEPT !.calls = Append(S.calls, Done("close", "pending")),
                    !.listening = FALSE,
                    !.closeCbs = S.closeCbs + 1,
                    !.ticks = Append(S.ticks, "close")]

\* line 169, instance.listen(port, cb): cb is a once('listening') listener; a
\* bind that succeeds leaves the handle in place and emits 'listening' on the
\* next tick, one that fails leaves no handle and emits 'error' on the next tick
BindEvent(ok) == IF ok THEN "listening" ELSE "error"

\* a listen() that attaches the observers and binds whatever instance.listening is
ListenBodyUnguarded(S) ==
  LET S1 == Issue(S, << Op("observe", 0, 0), Op("bind", 0, 0) >>) IN
  [S1 EXCEPT !.calls = Append(S.calls, Done("listen", "pending")),
             !.observers = S.observers + 1,
             !.listening = S.bindOk,
             !.listenCbs = S.listenCbs + 1,
             !.ticks = Append(S.ticks, BindEvent(S.bindOk))]

\* a listen() that resolves right after calling instance.listen, not in its
\* callback
ListenBodyResolvesEarly(S) ==
  IF S.listening
    THEN [S EXCEPT !.calls = Append(S.calls, Done("listen", "resolved"))]
    ELSE LET S1 == Issue(S, << Op("observe", 0, 0), Op("bind", 0, 0) >>) IN
         [S1 EXCEPT !.calls = Append(S.calls, Done("listen", "resolved")),
                    !.observers = S.observers + 1,
                    !.listening = S.bindOk,
                    !.ticks = Append(S.ticks, BindEvent(S.bindOk))]

\* listen(), lines 133-175
ListenBody(S) ==
  IF S.listening
    THEN [S EXCEPT !.calls = Append(S.calls, Done("listen", "resolved"))]
    ELSE LET S1 == Issue(S, << Op("observe", 0, 0), Op("bind", 0, 0) >>) IN
         [S1 EXCEPT !.calls = Append(S.calls, Done("listen", "pending")),
                    !.observers = S.observers + 1,
                    !.listening = S.bindOk,
                    !.listenCbs = S.listenCbs + 1,
                    !.ticks = Append(S.ticks, BindEvent(S.bindOk))]

\* a restart() that calls listen() first and close() second
RestartBodyListenFirst(S) ==
  LET S1 == ListenBody(S)
      S2 == CloseBody(S1)
      closed == S2.calls[Len(S2.calls)].state
  IN [S2 EXCEPT !.thens = IF closed = "pending" THEN S2.thens + 1 ELSE S2.thens,
                !.jobs = IF closed = "resolved" THEN S2.jobs + 1 ELSE S2.jobs,
                !.failed = IF closed = "rejected" THEN S2.failed + 1 ELSE S2.failed,
                !.calls = Append(S2.calls, Done("restart", "pending"))]

\* restart(), lines 183-186: close() and listen() are both called before
\* .then(), which receives listen()'s promise and not a function
RestartBody(S) ==
  LET S1 == CloseBody(S)
      S2 == ListenBody(S1)
      closed == S1.calls[Len(S1.calls)].state
  IN [S2 EXCEPT !.thens = IF closed = "pending" THEN S2.thens + 1 ELSE S2.thens,
                !.jobs = IF closed = "resolved" THEN S2.jobs + 1 ELSE S2.jobs,
                !.failed = IF closed = "rejected" THEN S2.failed + 1 ELSE S2.failed,
                !.calls = Append(S2.calls, Done("restart", "pending"))]

Commit(S, act, s) ==
  /\ listening' = S.listening
  /\ observers' = S.observers
  /\ sockets' = S.sockets
  /\ destroys' = S.destroys
  /\ listenCbs' = S.listenCbs
  /\ closeCbs' = S.closeCbs
  /\ thens' = S.thens
  /\ jobs' = S.jobs
  /\ failed' = S.failed
  /\ ticks' = S.ticks
  /\ made' = made
  /\ last' = [act |-> act, socket |-> s, ops |-> S.ops, calls |-> S.calls]

\* ---- scheduling ------------------------------------------------------------
JobPending == jobs > 0 \/ failed > 0

Quiet == ticks = << >> /\ ~JobPending

\* ---- Init ------------------------------------------------------------------
\* the server object as createServer leaves it, lines 75-95
Fresh ==
  /\ listening = FALSE
  /\ observers = 0
  /\ sockets = << >>
  /\ issued = 0
  /\ phase = [c \in Conns |-> "new"]
  /\ idle = [c \in Conns |-> FALSE]
  /\ uuid = [c \in Conns |-> 0]
  /\ onClose = [c \in Conns |-> 0]
  /\ destroys = [c \in Conns |-> 0]
  /\ reqs = [r \in Reqs |-> [state |-> "none", socket |-> 0, handlers |-> 0,
                             finish |-> FALSE, close |-> FALSE]]
  /\ listenCbs = 0
  /\ closeCbs = 0
  /\ thens = 0
  /\ jobs = 0
  /\ failed = 0
  /\ ticks = << >>
  /\ last = [act |-> "create", socket |-> 0, ops |-> << >>, calls |-> << >>]

\* a server created from a function, with the default configuration
Init ==
  /\ Fresh
  /\ made = Returned("function", "absent")

\* ---- the API ---------------------------------------------------------------
\* the bind outcomes that make a difference: none is attempted while listening
BindOutcomes(lst) == IF lst THEN {TRUE} ELSE BOOLEAN

Close ==
  /\ Commit(CloseBody(Cur), "close", 0)
  /\ UNCHANGED << issued, phase, idle, uuid, onClose, reqs >>

Listen ==
  /\ listening \/ observers < MaxListens
  /\ \E ok \in BindOutcomes(listening) :
       Commit(ListenBody(WithBind(Cur, ok)), "listen", 0)
  /\ UNCHANGED << issued, phase, idle, uuid, onClose, reqs >>

Restart ==
  /\ observers < MaxListens
  /\ \E ok \in BOOLEAN :
       Commit(RestartBody(WithBind(Cur, ok)), "restart", 0)
  /\ UNCHANGED << issued, phase, idle, uuid, onClose, reqs >>

\* ---- next-tick callbacks and promise reactions ----------------------------
\* lines 169-172: the once('listening') callbacks; emitted only with a handle
EmitListening ==
  /\ ticks # << >> /\ Head(ticks) = "listening"
  /\ LET n == IF listening THEN listenCbs ELSE 0 IN
     /\ listenCbs' = listenCbs - n
     /\ last' = [act |-> "listening", socket |-> 0, ops |-> << >>,
                 calls |-> DoneSeq("listen", n)]
  /\ ticks' = Tail(ticks)
  /\ UNCHANGED << listening, observers, sockets, issued, phase, idle, uuid,
                  onClose, destroys, reqs, closeCbs, thens, jobs, failed, made >>

\* line 169: the 'error' event of a failed bind. lib/index.js attaches no
\* 'error' listener and its promise executor takes no reject function: the
\* event settles no promise. (Without a listener of the caller's on
\* server.instance the event is an uncaught exception and the process stops
\* here.)
EmitError ==
  /\ ticks # << >> /\ Head(ticks) = "error"
  /\ ticks' = Tail(ticks)
  /\ last' = [act |-> "error", socket |-> 0, ops |-> << >>, calls |-> << >>]
  /\ UNCHANGED << listening, observers, sockets, issued, phase, idle, uuid,
                  onClose, destroys, reqs, listenCbs, closeCbs, thens, jobs, failed,
                  made >>

\* a 'close' callback that logs and does not resolve
EmitCloseOnlyLogs ==
  /\ ticks # << >> /\ Head(ticks) = "close"
  /\ ticks' = Tail(ticks)
  /\ last' = [act |-> "closed", socket |-> 0, ops |-> << >>, calls |-> << >>]
  /\ UNCHANGED << listening, observers, sockets, issued, phase, idle, uuid,
                  onClose, destroys, reqs, listenCbs, closeCbs, thens, jobs,
                  failed, made >>

\* lines 117-120: the once('close') callbacks; the restart() promises derived
\* from the resolved close() promises get their reaction queued
EmitClose ==
  /\ ticks # << >> /\ Head(ticks) = "close"
  /\ closeCbs' = 0
  /\ thens' = 0
  /\ jobs' = jobs + thens
  /\ ticks' = Tail(ticks)
  /\ last' = [act |-> "closed", socket |-> 0, ops |-> << >>,
              calls |-> DoneSeq("close", closeCbs)]
  /\ UNCHANGED << listening, observers, sockets, issued, phase, idle, uuid,
                  onClose, destroys, reqs, listenCbs, failed, made >>

\* line 185: the reaction of close().then(...)
RestartSettle ==
  /\ JobPending
  /\ jobs' = 0
  /\ failed' = 0
  /\ last' = [act |-> "settle", socket |-> 0, ops |-> << >>,
              calls |-> DoneSeq("restart", jobs)
                          \o [i \in 1..failed |-> Done("restart", "rejected")]]
  /\ UNCHANGED << listening, observers, sockets, issued, phase, idle, uuid,
                  onClose, destroys, reqs, listenCbs, closeCbs, thens, ticks, made >>

\* ---- I/O events -------------------------------------------------------------
\* lines 158-167, run once per attached 'connection' listener
ConnectionIds(n) == [i \in 1..n |-> issued + i]

ConnectionOps(c, n) == [i \in 1..n |-> Op("set", c, ConnectionIds(n)[i])]

Accept(c) ==
  /\ Quiet
  /\ listening
  /\ phase[c] = "new"
  /\ \A d \in Conns : d < c => phase[d] # "new"
  /\ phase' = [phase EXCEPT ![c] = "open"]
  /\ idle' = [idle EXCEPT ![c] = TRUE]
  /\ uuid' = [uuid EXCEPT ![c] = ConnectionIds(observers)[observers]]
  /\ issued' = issued + observers
  /\ onClose' = [onClose EXCEPT ![c] = observers]
  /\ Commit(Issue(Cur, ConnectionOps(c, observers)), "connection", c)
  /\ UNCHANGED reqs

\* lines 141-156, run once per attached 'request' listener
Request(r, c) ==
  /\ Quiet
  /\ phase[c] = "open" /\ destroys[c] = 0
  /\ reqs[r].state = "none"
  /\ \A q \in Reqs : q < r => reqs[q].state # "none"
  /\ idle' = [idle EXCEPT ![c] = FALSE]
  /\ reqs' = [reqs EXCEPT ![r] = [state |-> "active", socket |-> c,
                                  handlers |-> observers,
                                  finish |-> FALSE, close |-> FALSE]]
  /\ Commit(Cur, "request", c)
  /\ UNCHANGED << issued, phase, uuid, onClose >>

\* a response that has emitted 'close' emits nothing more: its once()
\* callbacks are gone
Gone == [state |-> "gone", socket |-> 0, handlers |-> 0, finish |-> FALSE, close |-> TRUE]

\* a completion callback that destroys the socket whatever instance.listening is
ResponseOpsAlways(c, lst) == << Op("destroy", c, 0), Op("delete", c, uuid[c]) >>

\* lines 150-153: one run of the once(e) callback, after the idle assignment
ResponseOps(c, lst) ==
  IF ~lst THEN << Op("destroy", c, 0), Op("delete", c, uuid[c]) >> ELSE << >>

\* a completion callback that leaves the idle flag as it is
ResponseIdleStale(c) == idle[c]

\* line 148: request.socket.idle = true
ResponseIdle(c) == TRUE

ResponseAct(e) == IF e = "finish" THEN "responseFinish" ELSE "responseClose"

ResponseEvent(r, e) ==
  LET c == reqs[r].socket IN
  /\ Quiet
  /\ reqs[r].state = "active"
  /\ ~reqs[r][e]
  /\ e = "finish" => ~reqs[r].close
  /\ e = "close" => (reqs[r].finish \/ phase[c] = "closed" \/ destroys[c] > 0)
  /\ reqs' = [reqs EXCEPT ![r] = IF e = "close" THEN Gone ELSE [@ EXCEPT !.finish = TRUE]]
  /\ idle' = [idle EXCEPT ![c] = IF reqs[r].handlers > 0 THEN ResponseIdle(c) ELSE @]
  /\ Commit(Issue(Cur, Repeat(ResponseOps(c, listening), reqs[r].handlers)), ResponseAct(e), c)
  /\ UNCHANGED << issued, phase, uuid, onClose >>

\* lines 164-166, run once per once('close') listener of the socket
SocketCloseOps(c) == Repeat(<< Op("delete", c, uuid[c]) >>, onClose[c])

SocketClose(c) ==
  /\ Quiet
  /\ phase[c] = "open"
  /\ phase' = [phase EXCEPT ![c] = "closed"]
  /\ onClose' = [onClose EXCEPT ![c] = 0]
  /\ Commit(Issue(Cur, SocketCloseOps(c)), "socketClose", c)
  /\ UNCHANGED << issued, idle, uuid, reqs >>

Next ==
  \/ Close
  \/ Listen
  \/ Restart
  \/ EmitListening
  \/ EmitError
  \/ EmitClose
  \/ RestartSettle
  \/ \E c \in Conns : Accept(c)
  \/ \E r \in Reqs, c \in Conns : Request(r, c)
  \/ \E r \in Reqs, e \in {"finish", "close"} : ResponseEvent(r, e)
  \/ \E c \in Conns : SocketClose(c)

Spec == Init /\ [][Next]_vars

\* The server under a fair event loop: every queued next-tick callback and
\* promise reaction is run, and the transport confirms every stop it was asked
\* for. Connections are accepted and carry requests whose responses complete;
\* their sockets stay open unless the server destroys them.
NextLive ==
  \/ Close
  \/ Listen
  \/ Restart
  \/ EmitListening
  \/ EmitError
  \/ EmitClose
  \/ RestartSettle
  \/ \E c \in Conns : Accept(c)
  \/ \E r \in Reqs, c \in Conns : Request(r, c)
  \/ \E r \in Reqs, e \in {"finish", "close"} : ResponseEvent(r, e)

SpecLive ==
  /\ Init /\ [][NextLive]_vars
  /\ WF_vars(EmitListening)
  /\ WF_vars(EmitError)
  /\ WF_vars(EmitClose)
  /\ WF_vars(RestartSettle)

\* ---- sockets whose destroy() throws ----------------------------------------
\* The sockets of Node's transport do not throw from destroy(); Spec has none
\* that does. SpecDestroyThrows adds the calls of close() and restart() in
\* which the destroy() of one registered socket throws.
CloseDestroyThrows ==
  /\ listening
  /\ \E k \in 1..Len(sockets) :
       Commit(CloseBody(WithThrow(Cur, k)), "close", 0)
  /\ UNCHANGED << issued, phase, idle, uuid, onClose, reqs >>

RestartDestroyThrows ==
  /\ listening
  /\ failed < MaxFailed
  /\ \E k \in 1..Len(sockets) :
       Commit(RestartBody(WithThrow(Cur, k)), "restart", 0)
  /\ UNCHANGED << issued, phase, idle, uuid, onClose, reqs >>

NextDestroyThrows ==
  \/ Next
  \/ CloseDestroyThrows
  \/ RestartDestroyThrows

SpecDestroyThrows == Init /\ [][NextDestroyThrows]_vars

\* ---- construction, and the API without connections -------------------------
InitCreate ==
  /\ Fresh
  /\ \E cb \in CbValues, ssl \in SslValues : made = Called(cb, ssl)

CreateServerCall ==
  /\ made.state = "args"
  /\ made' = Returned(made.cb, made.ssl)
  /\ UNCHANGED << listening, observers, sockets, issued, phase, idle, uuid,
                  onClose, destroys, reqs, listenCbs, closeCbs, thens, jobs,
                  failed, ticks, last >>

\* the API is there once createServer has returned the server object
Api ==
  /\ made.state = "created"
  /\ \/ Close
     \/ Listen
     \/ Restart
     \/ EmitListening
     \/ EmitError
     \/ EmitClose
     \/ RestartSettle

NextCreate ==
  \/ CreateServerCall
  \/ Api

SpecCreate == InitCreate /\ [][NextCreate]_vars

\* ---- helpers of the properties ----------------------------------------------
\* the promise the API function that ran last has returned
LastCall == last.calls[Len(last.calls)]

\* the step is a direct call of the API function `act`
DirectCall(act) == last'.act = act /\ Len(last'.calls) = 1

\* the promises of `o` that the callback that ran last has resolved
ResolvedNow(o) ==
  { i \in DOMAIN last.calls : last.calls[i].op = o /\ last.calls[i].state = "resolved" }

ResponseActs == {"responseFinish", "responseClose"}

\* a request on c has started and neither completion event has been delivered
InFlight(c) ==
  \E r \in Reqs : reqs[r].state = "active" /\ reqs[r].socket = c
                  /\ ~reqs[r].finish /\ ~reqs[r].close

DestroyCount(ops) == Cardinality({ i \in DOMAIN ops : ops[i].op = "destroy" })

\* ---- C1 ---------------------------------------------------------------------
\* C1: whenever the promise of a close() that was called on a listening server
\* goes from pending to resolved, the sockets Map is empty in that state.
C1_RegistryEmptyWhenCloseResolves ==
  [][closeCbs' < closeCbs => sockets' = << >>]_vars

C1_Witness ==
  /\ last.act = "closed"
  /\ ResolvedNow("close") # {}
  /\ \E c \in Conns : phase[c] = "open" /\ destroys[c] > 0
  /\ sockets = << >>

\* ---- C2 ---------------------------------------------------------------------
\* C2: a connection with a request in flight is not destroyed before that
\* request completes, and a connection that carried a request is destroyed at
\* most once.
C2_DestroyedOnceAfterCompletion ==
  \A c \in Conns :
    /\ InFlight(c) => destroys[c] = 0
    /\ (\E r \in Reqs : reqs[r].state = "active" /\ reqs[r].socket = c)
         => destroys[c] <= 1

\* ---- C3 ---------------------------------------------------------------------
\* C3: when restart() has issued the observer registration and the bind of its
\* listen step, the promise of its close step is already resolved.
C3_ListenBeginsAfterCloseResolved ==
  (last.act = "restart" /\ (HasOp(last.ops, "bind") \/ HasOp(last.ops, "observe")))
    => last.calls[1].op = "close" /\ last.calls[1].state = "resolved"

\* ---- C4 ---------------------------------------------------------------------
\* C4: in the close() sweep and in the request-completion callbacks, every
\* Map deletion is preceded, in the same handler, by the destroy of the socket
\* whose entry is deleted.
C4_DestroyBeforeDelete ==
  last.act \in {"close", "restart"} \cup ResponseActs =>
    \A i \in DOMAIN last.ops :
      last.ops[i].op = "delete" =>
        \E j \in 1..(i - 1) : /\ last.ops[j].op = "destroy"
                              /\ last.ops[j].socket = last.ops[i].socket

C4_Witness ==
  /\ last.act = "close"
  /\ Len(last.ops) >= 3
  /\ last.ops[1].op = "destroy" /\ last.ops[2].op = "delete"
  /\ last.ops[1].socket = last.ops[2].socket
  /\ ~idle[last.ops[1].socket]

\* ---- C5 ---------------------------------------------------------------------
\* C5: a close() called while the instance is not listening returns a resolved
\* promise and issues no destroy, no Map change, no stop request and no change
\* of the listening state, the observers or the pending callbacks.
C5_CloseWhenNotListeningIsNoOp ==
  [][(DirectCall("close") /\ ~listening) =>
       /\ last'.calls[1].state = "resolved"
       /\ last'.ops = << >>
       /\ sockets' = sockets
       /\ destroys' = destroys
       /\ listening' = listening
       /\ observers' = observers
       /\ closeCbs' = closeCbs
       /\ ticks' = ticks]_vars

C5_Witness ==
  /\ last.act = "close"
  /\ last.ops = << >>
  /\ ~listening
  /\ LastCall.op = "close" /\ LastCall.state = "resolved"
  /\ observers > 0

\* ---- C6 ---------------------------------------------------------------------
\* C6: a listen() called while not listening issues exactly one bind and one
\* observer registration and leaves the instance listening (unless the bind
\* fails); a listen() called
\* while listening returns a resolved promise and issues no bind and no
\* registration and leaves the listening state and the Map unchanged.
C6_ListenTwiceBindsOnce ==
  [][DirectCall("listen") =>
       IF listening
         THEN /\ last'.calls[1].state = "resolved"
              /\ last'.ops = << >>
              /\ observers' = observers
              /\ listening'
              /\ sockets' = sockets
              /\ listenCbs' = listenCbs
              /\ ticks' = ticks
         ELSE /\ CountOps(last'.ops, "bind", 0) = 1
              /\ CountOps(last'.ops, "observe", 0) = 1
              /\ observers' = observers + 1
              /\ listening' = (ticks'[Len(ticks')] = "listening")]_vars

C6_Witness ==
  /\ last.act = "listen"
  /\ last.ops = << >>
  /\ listening
  /\ observers = 1
  /\ LastCall.op = "listen" /\ LastCall.state = "resolved"
  /\ sockets # << >>

\* ---- C7 ---------------------------------------------------------------------
\* C7: a close() called while listening destroys every socket of the Map, idle
\* or not, and empties the Map; when no request was ever made, the number of
\* destroy calls equals the number of registered connections.
C7_CloseDestroysEachConnectionOnce ==
  [][(DirectCall("close") /\ listening) =>
       /\ \A c \in MapSockets(sockets) : CountOps(last'.ops, "destroy", c) >= 1
       /\ sockets' = << >>
       /\ (\A r \in Reqs : reqs[r].state = "none")
            => DestroyCount(last'.ops) = Cardinality(MapSockets(sockets))]_vars

\* ---- C8 ---------------------------------------------------------------------
\* C8: a completion event of a response (finish or close) sets the socket's
\* idle flag; when the instance is not listening it destroys the socket and
\* the socket is in no entry of the Map afterwards; when the instance is
\* listening it issues no destroy and leaves the Map unchanged.
C8_CompletionDrainsIffNotListening ==
  [][(last'.act \in ResponseActs /\ reqs' # reqs) =>
       LET c == last'.socket IN
       /\ idle'[c]
       /\ IF ~listening
            THEN /\ CountOps(last'.ops, "destroy", c) >= 1
                 /\ destroys'[c] >= 1
                 /\ c \notin MapSockets(sockets')
            ELSE /\ DestroyCount(last'.ops) = 0
                 /\ destroys' = destroys
                 /\ sockets' = sockets]_vars

C8_Witness ==
  /\ last.act \in ResponseActs
  /\ ~listening
  /\ HasOp(last.ops, "destroy")
  /\ idle[last.socket]

\* ---- C9 ---------------------------------------------------------------------
\* C9: idle is true right after the connection callback, false right after the
\* request callback, and true again right after either completion event of
\* the response.
C9_IdleFollowsRequestLifecycle ==
  /\ last.act = "connection" => idle[last.socket]
  /\ last.act = "request" => ~idle[last.socket]
  /\ last.act \in ResponseActs => idle[last.socket]

C9_Witness ==
  /\ last.act = "responseClose"
  /\ idle[last.socket]
  /\ phase[last.socket] = "closed"
  /\ destroys[last.socket] = 0

\* ---- C10 --------------------------------------------------------------------
\* C10: an accepted connection gets exactly one fresh id and idle = true, is in
\* the Map under that id, and the Map grows by exactly one entry.
C10_AcceptAddsOneEntry ==
  [][(last'.act = "connection" /\ phase' # phase) =>
       LET c == last'.socket IN
       /\ idle'[c]
       /\ issued' = issued + 1
       /\ uuid'[c] = issued'
       /\ ~MapHas(sockets, uuid'[c])
       /\ MapHas(sockets', uuid'[c])
       /\ sockets'[MapGet(sockets', uuid'[c])].socket = c
       /\ Len(sockets') = Len(sockets) + 1]_vars

\* ---- C11 --------------------------------------------------------------------
\* the entries of m that do not map to socket c
OtherEntries(m, c) == SelectSeq(m, LAMBDA e : e.socket # c)

\* C11: when a socket emits 'close', in any state of the server, the socket is
\* in no entry of the Map afterwards and the entries of the other sockets are
\* unchanged.
C11_ClosureRemovesOnlyItsEntry ==
  [][(last'.act = "socketClose" /\ phase' # phase) =>
       LET c == last'.socket IN
       /\ c \notin MapSockets(sockets')
       /\ OtherEntries(sockets', c) = OtherEntries(sockets, c)]_vars

\* ---- C12 --------------------------------------------------------------------
\* C12: in every reachable state a connection is in the Map iff it has been
\* accepted and its socket has not emitted 'close' yet.
C12_RegisteredIffOpen ==
  \A c \in Conns : (c \in MapSockets(sockets)) <=> (phase[c] = "open")

\* ---- C13 --------------------------------------------------------------------
\* the handler that ran last issued a bind that the transport refused
BindFailed ==
  /\ last.act \in {"listen", "restart"}
  /\ HasOp(last.ops, "bind")
  /\ ticks # << >> /\ ticks[Len(ticks)] = "error"

\* C13: a listen() whose bind fails leaves the instance not listening, and when
\* the transport reports the failure a listen() promise is rejected.
C13_BindFailureRejectsListen ==
  /\ BindFailed => ~listening
  /\ last.act = "error" =>
       \E i \in DOMAIN last.calls : last.calls[i] = Done("listen", "rejected")

\* ---- C14 --------------------------------------------------------------------
\* C14: a pending close() promise is resolved only by the transport's 'close'
\* event, and the instance is not listening when it is resolved.
C14_CloseResolvesWhenShutDown ==
  (last.act \notin {"close", "restart"} /\ ResolvedNow("close") # {}) =>
    (last.act = "closed" /\ ~listening)

\* ---- C15 --------------------------------------------------------------------
\* C15: a listen() promise is resolved only when the instance is listening:
\* by the transport's 'listening' event, or by a listen() call that finds the
\* instance listening and issues no bind.
C15_ListenResolvesWhenListening ==
  ResolvedNow("listen") # {} =>
    /\ listening
    /\ last.act \in {"listening", "listen"}
    /\ last.act = "listen" => ~HasOp(last.ops, "bind")

C15_Witness ==
  /\ last.act = "listening"
  /\ Cardinality(ResolvedNow("listen")) = 2
  /\ listening
  /\ listenCbs = 0

\* ---- C16 --------------------------------------------------------------------
\* C16: when a restart() promise is resolved, the promises of its close step
\* and of its listen step are resolved and the instance is listening.
C16_RestartResolvesWhenListening ==
  ResolvedNow("restart") # {} =>
    /\ listening
    /\ listenCbs = 0
    /\ closeCbs = 0

\* ---- C17 --------------------------------------------------------------------
\* the lifecycle state: Closing while a close() promise waits for the transport
Lifecycle(lst, pendingClose) ==
  IF lst THEN "Listening" ELSE IF pendingClose > 0 THEN "Closing" ELSE "Idle"

LifecycleMoves ==
  { << "Idle", "Listening" >>, << "Listening", "Closing" >>, << "Closing", "Idle" >> }

\* C17: the lifecycle state changes only Idle -> Listening, Listening -> Closing
\* and Closing -> Idle, and the instance is never listening while a close()
\* promise is pending.
C17_LifecycleIsSequential ==
  [][/\ \/ Lifecycle(listening', closeCbs') = Lifecycle(listening, closeCbs)
        \/ << Lifecycle(listening, closeCbs), Lifecycle(listening', closeCbs') >>
             \in LifecycleMoves
     /\ ~(listening' /\ closeCbs' > 0)]_vars

\* ---- C18 --------------------------------------------------------------------
\* C18: a restart() call calls close() once and then listen() once, issues
\* exactly one bind and at most one stop request, the stop before the bind.
C18_RestartClosesThenListensOnce ==
  last.act = "restart" =>
    /\ Len(last.calls) = 3
    /\ last.calls[1].op = "close"
    /\ last.calls[2].op = "listen"
    /\ last.calls[3].op = "restart"
    /\ CountOps(last.ops, "bind", 0) = 1
    /\ CountOps(last.ops, "observe", 0) = 1
    /\ CountOps(last.ops, "stop", 0) <= 1
    /\ \A i, j \in DOMAIN last.ops :
         (last.ops[i].op = "stop" /\ last.ops[j].op = "bind") => i < j

C18_Witness ==
  /\ last.act = "restart"
  /\ HasOp(last.ops, "destroy")
  /\ HasOp(last.ops, "stop")
  /\ HasOp(last.ops, "bind")
  /\ listening

\* ---- C20 --------------------------------------------------------------------
\* the number of entries of m that map to socket c
EntriesOf(m, c) == Cardinality({ i \in DOMAIN m : m[i].socket = c })

C19_DestroyFailureIsNotSurfaced ==
  [][(last'.act \in {"close", "restart"} /\ HasOp(last'.ops, "destroyThrows")) =>
       /\ sockets' = << >>
       /\ \A i \in DOMAIN last'.calls : last'.calls[i].state # "rejected"
       /\ \A c \in MapSockets(sockets) :
            CountOps(last'.ops, "destroy", c) + CountOps(last'.ops, "destroyThrows", c) >= 1
       /\ HasOp(last'.ops, "stop")]_vars

\* ---- C21 --------------------------------------------------------------------
\* C21: a createServer call whose cb is not a function throws TypeError, has
\* called no constructor (no transport, no Map) and returns no object.
C21_NonFunctionHandlerThrows ==
  (made.state # "args" /\ TypeOf(made.cb) # "function") =>
    /\ made.state = "thrown"
    /\ made.thrown = "TypeError"
    /\ made.ops = << >>
    /\ made.result = "none"

C21_Witness ==
  /\ made.state = "thrown"
  /\ made.cb = "null"
  /\ made.ssl = "options"
  /\ made.ops = << >>

\* ---- C22 --------------------------------------------------------------------
\* C22: every promise of listen(), close() or restart() that a handler
\* resolves, in the no-op branches and in the transport callbacks, is resolved
\* with the server object.
C22_ResolvesWithServer ==
  \A i \in DOMAIN last.calls :
    last.calls[i].state = "resolved" => last.calls[i].value = "server"

C22_Witness ==
  /\ last.act = "settle"
  /\ \E i \in DOMAIN last.calls :
       /\ last.calls[i].op = "restart"
       /\ last.calls[i].state = "resolved"
       /\ last.calls[i].value = "server"
  /\ listening
  /\ listenCbs = 0

\* ---- C23 --------------------------------------------------------------------
Constructors == {"http.createServer", "https.createServer", "new Map"}

C24_IdleIffNoRequestInFlight ==
  \A c \in Conns : phase[c] # "new" => (idle[c] <=> ~InFlight(c))

\* ---- C25 --------------------------------------------------------------------
\* C25: a close() promise that is pending is eventually resolved.
C25_CloseEventuallyResolves == (closeCbs > 0) ~> (closeCbs = 0)

C25_Witness ==
  /\ last.act = "closed"
  /\ ResolvedNow("close") # {}
  /\ closeCbs = 0
  /\ listening
  /\ \E r \in Reqs : reqs[r].state = "active" /\ ~reqs[r].finish

\* ---- C26 --------------------------------------------------------------------
\* C26: in every reachable state at most one 'connection' and one 'request'
\* listener pair is attached to the instance, every socket has at most one
\* entry in the Map and every request was handled by one listener.
C26_ObserversAttachedOnce ==
  /\ observers <= 1
  /\ \A c \in Conns : EntriesOf(sockets, c) <= 1
  /\ \A r \in Reqs : reqs[r].handlers <= 1

\* ---- C27 --------------------------------------------------------------------
\* C27: in every reachable state the key of every Map entry is the uuid of
\* the socket it maps to, and no socket is in the Map under two keys.
C27_KeysAreCurrentIds ==
  /\ \A i \in DOMAIN sockets : sockets[i].key = uuid[sockets[i].socket]
  /\ \A i, j \in DOMAIN sockets :
       sockets[i].socket = sockets[j].socket => i = j

\* ---- C28 --------------------------------------------------------------------
\* a stop request the transport has not confirmed yet
StopUnconfirmed == \E i \in DOMAIN ticks : ticks[i] = "close"

\* C28: no close() promise is resolved while a stop request of the transport
\* is unconfirmed.
C28_NoCloseResolvesDuringShutdown ==
  ResolvedNow("close") # {} => ~StopUnconfirmed

\* ---- C29 --------------------------------------------------------------------
\* C29: the second completion event of a response (its 'close' after its
\* 'finish') issues no destroy and no Map deletion and leaves the idle flags
\* as they are.
C29_CompletionHandledOnce ==
  [][\A r \in Reqs :
       (reqs[r].state = "active" /\ reqs[r].finish /\ reqs'[r] # reqs[r]) =>
         /\ last'.ops = << >>
         /\ idle' = idle]_vars

\* ---- C30 --------------------------------------------------------------------
\* C30: in every reachable state in which the instance is not listening the
\* Map is empty.
C30_EmptyWhenNotListening == ~listening => sockets = << >>

C30_Witness ==
  /\ ~listening
  /\ last.act = "close"
  /\ HasOp(last.ops, "delete")
  /\ sockets = << >>
  /\ \E c \in Conns : phase[c] = "open" /\ InFlight(c)

====
